---------------------------- MODULE Spec2Model ----------------------------
(***************************************************************************)
(* A state-machine model of WebGLImageViewerEngine                         *)
(* (src/packages/webgl-viewer/src/WebGLImageViewerEngine.ts).              *)
(*                                                                         *)
(* Numbers.  JavaScript numbers are modelled as exact rationals <<n, d>>   *)
(* with d > 0, kept in lowest terms.  Lengths are counted in blocks of     *)
(* 256 CSS/image pixels and memory in units of 64 KiB, so that a texture   *)
(* of w x h blocks costs 4*w*h units exactly as it costs 4*w*h bytes in    *)
(* the code.                                                               *)
(*                                                                         *)
(* Scheduling.  The engine is single threaded: every handler, promise      *)
(* continuation and timer callback is one atomic action.  The callbacks    *)
(* of one animation frame run back to back, in registration order.         *)
(***************************************************************************)
EXTENDS Integers, Sequences, FiniteSets, TLC

(***************************************************************************)
(* Bounds of the model.                                                    *)
(***************************************************************************)
\* user operations (wheel, pinch, pan, zoom, resize, ...) in Spec
MaxOps == 1
\* user operations in SpecTransform
MaxOpsT == 2
\* user operations in SpecToggle and SpecTouch
MaxOpsG == 3
\* user operations in SpecFaults
MaxOpsF == 2
\* texture creations in flight at the same time
MaxTasks == 2
\* textures ever allocated on the GPU
MaxTextures == 7
\* loadImage calls
MaxLoads == 1
\* loadImage calls in SpecTouch
MaxLoadsG == 2
\* injected failures (decode errors, GL errors)
MaxFaults == 1

\* null, for a texture reference
NoTexture == 0

(***************************************************************************)
(* Exact rational arithmetic standing for JavaScript number arithmetic.    *)
(***************************************************************************)
RECURSIVE GCD(_, _)
GCD(a, b) == IF b = 0 THEN a ELSE GCD(b, a % b)

Abs(x) == IF x < 0 THEN -x ELSE x

Norm(n, d) ==
  LET g == GCD(Abs(n), Abs(d))
      s == IF d < 0 THEN -1 ELSE 1
  IN  <<(s * n) \div g, (s * d) \div g>>

R(n) == <<n, 1>>
Zero == <<0, 1>>
One == <<1, 1>>

\* sums, products and comparisons reduce by common factors first, to keep
\* the intermediate integers small
RAdd(a, b) ==
  LET g == GCD(a[2], b[2])
  IN  Norm(a[1] * (b[2] \div g) + b[1] * (a[2] \div g), (a[2] \div g) * b[2])
RNeg(a) == <<-a[1], a[2]>>
RSub(a, b) == RAdd(a, RNeg(b))
RMul(a, b) ==
  LET g1 == GCD(Abs(a[1]), b[2])
      g2 == GCD(Abs(b[1]), a[2])
  IN  IF a[1] = 0 \/ b[1] = 0 THEN <<0, 1>>
      ELSE <<(a[1] \div g1) * (b[1] \div g2), (a[2] \div g2) * (b[2] \div g1)>>
RDiv(a, b) ==
  RMul(a, IF b[1] < 0 THEN <<-b[2], -b[1]>> ELSE <<b[2], b[1]>>)
RLe(a, b) ==
  LET g == GCD(a[2], b[2])
  IN  a[1] * (b[2] \div g) <= b[1] * (a[2] \div g)
RLt(a, b) == ~RLe(b, a)
RMin(a, b) == IF RLe(a, b) THEN a ELSE b
RMax(a, b) == IF RLe(a, b) THEN b ELSE a
RAbs(a) == <<Abs(a[1]), a[2]>>

\* Math.round: the nearest integer, halves rounded up
Round(a) == (2 * a[1] + a[2]) \div (2 * a[2])

\* Math.floor
Floor(a) == a[1] \div a[2]

\* Math.round(Math.sqrt(q)) for a rational q >= 0
RoundSqrt(q) ==
  CHOOSE k \in 0..(Floor(q) + 1) :
    /\ (k = 0 \/ (2 * k - 1) * (2 * k - 1) * q[2] <= 4 * q[1])
    /\ 4 * q[1] < (2 * k + 1) * (2 * k + 1) * q[2]


(***************************************************************************)
(* The environment: images the decoder can deliver, viewport sizes the     *)
(* host can give the canvas, the device, and the configuration record.     *)
(***************************************************************************)
\* decoded size <<width, height>> of each image URL
ImageDims(src) == IF src = 1 THEN <<64, 32>> ELSE <<4, 4>>
Images == {1, 2}

\* CSS sizes <<width, height>> getBoundingClientRect can report
Viewports == {<<8, 6>>, <<4, 3>>}

\* gl.getParameter(gl.MAX_TEXTURE_SIZE): 8192 pixels
MaxTextureSize == 32

\* calculateMemoryLimits: a mobile device with devicePixelRatio < 3 (128 MiB)
BaseMemoryLimit == 2048
TextureMemoryLimit == Floor(RMul(R(BaseMemoryLimit), <<6, 10>>))

\* pointer positions of wheel, double click and pinch, relative to the canvas
Anchors(cw, ch) == {<<Zero, Zero>>, <<Norm(cw, 2), Norm(ch, 2)>>}

\* pointer movement between two move events
Deltas == {<<2, 1>>, <<-2, -1>>}

\* positions of a one finger touch: 0, 49 and 50 CSS pixels from the corner
TouchPoints ==
  { <<Zero, Zero>>, << <<49, 256>>, Zero >>, << <<50, 256>>, Zero >>,
    << Zero, <<50, 256>> >> }

\* the 50 CSS pixels a second tap may not reach, in blocks of 256 pixels
TapSlop == <<50, 256>>

\* distance ratios of a two finger move
PinchFactors == {<<1, 2>>, <<2, 1>>}

DefaultConfig ==
  [ initialScale |-> One, minScale |-> <<1, 2>>, maxScale |-> <<2, 1>>,
    wheelStep |-> <<1, 2>>, wheelDisabled |-> FALSE,
    panningDisabled |-> FALSE, pinchDisabled |-> FALSE,
    dblDisabled |-> FALSE, dblMode |-> "toggle", dblStep |-> <<2, 1>>,
    dblAnimationTime |-> 200,
    smooth |-> TRUE, centerOnInit |-> TRUE, limitToBounds |-> TRUE ]

\* a wheel step that takes two steps to leave a level of the LOD table
FineStepConfig == [DefaultConfig EXCEPT !.wheelStep = <<1, 4>>]

\* a configuration that does not let the view shrink below fit
FitFloorConfig == [DefaultConfig EXCEPT !.minScale = One]

\* a configuration that opens the image at three times fit, above maxScale
LargeInitialConfig == [DefaultConfig EXCEPT !.initialScale = <<3, 1>>]

\* a configuration whose scale range is empty: minScale above maxScale
InvertedRangeConfig == [DefaultConfig EXCEPT !.minScale = <<3, 1>>]

Configs ==
  { DefaultConfig,
    [DefaultConfig EXCEPT !.dblMode = "zoom", !.centerOnInit = FALSE,
                          !.limitToBounds = FALSE, !.smooth = FALSE,
                          !.dblAnimationTime = 0] }

(***************************************************************************)
(* LOD_LEVELS of ./constants, which is not among the source files: a table *)
(* as section 3 of the specification requires it, scale in (0, 1] and both *)
(* columns non-decreasing.  Level l is LodScale[l + 1], LodMaxViewport[l+1]*)
(***************************************************************************)
LodScale == << <<1, 16>>, <<1, 8>>, <<1, 4>>, <<1, 2>>, <<1, 1>> >>
LodMaxViewport == << <<1, 2>>, <<1, 1>>, <<2, 1>>, <<4, 1>>, <<8, 1>> >>
NumLODs == Len(LodScale)
LODs == 0..(NumLODs - 1)

\* memoryInfo.pressure
Pressures == {"low", "medium", "high", "critical"}

\* scales of a view, relative to the fit scale
RelativeScales ==
  { <<1, 4>>, <<1, 2>>, One, <<2, 1>>, <<4, 1>>, <<8, 1>>, <<16, 1>> }

\* translations <<tx, ty>> of a view
Translations == { <<Zero, Zero>>, <<R(1), R(-1)>>, <<R(100), R(-100)>> }

(***************************************************************************)
(* State.                                                                  *)
(***************************************************************************)
VARIABLES
  cfg,               \* this.config
  offscreenGL,       \* whether this.offscreenGL is available
  canvasWidth, canvasHeight,
  imageWidth, imageHeight,
  imageLoaded,
  originalImageSrc,  \* 0 stands for ''
  scale, translateX, translateY,
  anim,              \* the animation record; anim.on is isAnimating
  isOriginalSize,
  isDragging,
  pinching,          \* lastTouchDistance > 0
  dblRecent,         \* Date.now() - lastDoubleClickTime < 300
  lastTouchAge,      \* Date.now() - lastTouchTime in ms, 300 for 300 or more
  lastTouchX, lastTouchY,
  frontTexture, backTexture, isBackBufferReady,
  currentLOD,
  lodTextures,       \* LOD index -> its TextureInfo, NoInfo when absent
  pressure,          \* memoryInfo.pressure
  gpu,               \* the WebGL textures ever created: id -> [lod, src, live]
  tasks,             \* texture creations in flight
  rafQueue,          \* callbacks registered with requestAnimationFrame
  renderLoop,        \* this.renderLoop !== null
  listeners,         \* the input and resize listeners are attached
  destroyed,         \* destroy() has been called
  drawn,             \* the last draw call: what it bound, and when
  zoomReported,      \* the arguments of the last onZoomChange call, <<>>
                     \* before the first
  opsLeft, loadsLeft, faultsLeft, \* what the bounds still allow
  log                \* the last call of each kind, as its caller saw it

vars ==
  << cfg, offscreenGL, canvasWidth, canvasHeight, imageWidth, imageHeight,
     imageLoaded, originalImageSrc, scale, translateX, translateY, anim,
     isOriginalSize, isDragging, pinching, dblRecent, lastTouchAge,
     lastTouchX, lastTouchY, frontTexture,
     backTexture, isBackBufferReady, currentLOD, lodTextures, pressure, gpu,
     tasks, rafQueue, renderLoop, listeners, destroyed, drawn, zoomReported,
     opsLeft, loadsLeft, faultsLeft, log >>

\* The engine's fields as one record, so that methods are record transformers.
Cur ==
  [ cfg |-> cfg, offscreenGL |-> offscreenGL,
    canvasWidth |-> canvasWidth, canvasHeight |-> canvasHeight,
    imageWidth |-> imageWidth, imageHeight |-> imageHeight,
    imageLoaded |-> imageLoaded, originalImageSrc |-> originalImageSrc,
    scale |-> scale, translateX |-> translateX, translateY |-> translateY,
    anim |-> anim, isOriginalSize |-> isOriginalSize,
    isDragging |-> isDragging, pinching |-> pinching, dblRecent |-> dblRecent,
    lastTouchAge |-> lastTouchAge, lastTouchX |-> lastTouchX,
    lastTouchY |-> lastTouchY,
    frontTexture |-> frontTexture, backTexture |-> backTexture,
    isBackBufferReady |-> isBackBufferReady, currentLOD |-> currentLOD,
    lodTextures |-> lodTextures, pressure |-> pressure, gpu |-> gpu,
    tasks |-> tasks, rafQueue |-> rafQueue, renderLoop |-> renderLoop,
    listeners |-> listeners, destroyed |-> destroyed, drawn |-> drawn,
    zoomReported |-> zoomReported ]

Apply(st) ==
  /\ cfg' = st.cfg /\ offscreenGL' = st.offscreenGL
  /\ canvasWidth' = st.canvasWidth /\ canvasHeight' = st.canvasHeight
  /\ imageWidth' = st.imageWidth /\ imageHeight' = st.imageHeight
  /\ imageLoaded' = st.imageLoaded /\ originalImageSrc' = st.originalImageSrc
  /\ scale' = st.scale /\ translateX' = st.translateX
  /\ translateY' = st.translateY
  /\ anim' = st.anim /\ isOriginalSize' = st.isOriginalSize
  /\ isDragging' = st.isDragging /\ pinching' = st.pinching
  /\ dblRecent' = st.dblRecent
  /\ lastTouchAge' = st.lastTouchAge
  /\ lastTouchX' = st.lastTouchX /\ lastTouchY' = st.lastTouchY
  /\ frontTexture' = st.frontTexture /\ backTexture' = st.backTexture
  /\ isBackBufferReady' = st.isBackBufferReady /\ currentLOD' = st.currentLOD
  /\ lodTextures' = st.lodTextures /\ pressure' = st.pressure
  /\ gpu' = st.gpu /\ tasks' = st.tasks /\ rafQueue' = st.rafQueue
  /\ renderLoop' = st.renderLoop /\ listeners' = st.listeners
  /\ destroyed' = st.destroyed /\ drawn' = st.drawn
  /\ zoomReported' = st.zoomReported

(***************************************************************************)
(* Transform: fit scale, scale range, constraint.                          *)
(***************************************************************************)
GetFitToScreenScale(st) ==
  RMin(Norm(st.canvasWidth, st.imageWidth), Norm(st.canvasHeight, st.imageHeight))

AbsoluteMinScale(st) == RMul(GetFitToScreenScale(st), st.cfg.minScale)

EffectiveMaxScale(st) == RMax(RMul(GetFitToScreenScale(st), st.cfg.maxScale), One)

Clamp(x, lo, hi) == RMax(lo, RMin(hi, x))

ConstrainImagePosition(st) ==
  IF ~st.cfg.limitToBounds THEN st
  ELSE IF RLe(st.scale, GetFitToScreenScale(st))
  THEN [st EXCEPT !.translateX = Zero, !.translateY = Zero]
  ELSE
    LET maxTranslateX ==
          RMax(Zero, RDiv(RSub(RMul(R(st.imageWidth), st.scale),
                               R(st.canvasWidth)), R(2)))
        maxTranslateY ==
          RMax(Zero, RDiv(RSub(RMul(R(st.imageHeight), st.scale),
                               R(st.canvasHeight)), R(2)))
    IN  [st EXCEPT
           !.translateX = Clamp(st.translateX, RNeg(maxTranslateX), maxTranslateX),
           !.translateY = Clamp(st.translateY, RNeg(maxTranslateY), maxTranslateY)]

ConstrainScaleAndPosition(st) ==
  LET s == IF RLt(st.scale, AbsoluteMinScale(st)) THEN AbsoluteMinScale(st)
           ELSE IF RLt(EffectiveMaxScale(st), st.scale) THEN EffectiveMaxScale(st)
           ELSE st.scale
  IN  ConstrainImagePosition([st EXCEPT !.scale = s])

\* a notifyZoomChange that is silent while an animation runs
NotifyZoomChangeIdle(st) ==
  IF st.anim.on THEN st
  ELSE [st EXCEPT !.zoomReported =
          <<st.scale, RDiv(st.scale, GetFitToScreenScale(st))>>]

\* notifyZoomChange, with a host that registered onZoomChange
NotifyZoomChange(st) ==
  [st EXCEPT !.zoomReported =
     <<st.scale, RDiv(st.scale, GetFitToScreenScale(st))>>]

FitImageToScreen(st) ==
  [st EXCEPT !.scale = RMul(GetFitToScreenScale(st), st.cfg.initialScale),
             !.translateX = Zero, !.translateY = Zero,
             !.isOriginalSize = FALSE]

(***************************************************************************)
(* Memory pressure and LOD selection.                                      *)
(***************************************************************************)
\* a getMemoryPressureModifier that ignores medium pressure
GetMemoryPressureModifierFlat(p) ==
  CASE p = "critical" -> <<1, 2>>
    [] p = "high" -> <<7, 10>>
    [] OTHER -> One

GetMemoryPressureModifier(p) ==
  CASE p = "critical" -> <<1, 2>>
    [] p = "high" -> <<7, 10>>
    [] p = "medium" -> <<9, 10>>
    [] OTHER -> One

IMin(a, b) == IF a <= b THEN a ELSE b
IMax(a, b) == IF a >= b THEN a ELSE b

GetEffectiveMaxTextureSize(p) ==
  CASE p = "critical" -> IMin(MaxTextureSize, 8)
    [] p = "high" -> IMin(MaxTextureSize, 16)
    [] p = "medium" -> IMin(MaxTextureSize, 32)
    [] OTHER -> MaxTextureSize

\* a selectOptimalLOD that falls back to the coarsest level
SelectCoarsestFallback(st) ==
  IF ~st.imageLoaded THEN 3
  ELSE
    LET relativeScale == RDiv(st.scale, GetFitToScreenScale(st))
        m == GetMemoryPressureModifier(st.pressure)
        fits == {l \in LODs : RLe(relativeScale, RMul(LodMaxViewport[l + 1], m))}
    IN  IF fits = {} THEN 0
        ELSE CHOOSE l \in fits : \A k \in fits : l <= k

SelectOptimalLOD(st) ==
  IF ~st.imageLoaded THEN 3
  ELSE
    LET relativeScale == RDiv(st.scale, GetFitToScreenScale(st))
        m == GetMemoryPressureModifier(st.pressure)
        fits == {l \in LODs : RLe(relativeScale, RMul(LodMaxViewport[l + 1], m))}
    IN  IF fits = {} THEN NumLODs - 1
        ELSE CHOOSE l \in fits : \A k \in fits : l <= k

\* <<width, height>> of the texture made for a target of w x h
ApplyMemoryConstraints(w, h, p) ==
  LET estimatedMemory == R(w * h * 4)
      maxSingleTextureMemory == RMul(R(TextureMemoryLimit), <<3, 10>>)
      maxSize == GetEffectiveMaxTextureSize(p)
  IN  IF RLt(maxSingleTextureMemory, estimatedMemory)
      THEN \* Math.round(width * Math.sqrt(max / estimated))
           LET ratio == RDiv(maxSingleTextureMemory, estimatedMemory)
           IN  << IMax(1, RoundSqrt(RMul(R(w * w), ratio))),
                  IMax(1, RoundSqrt(RMul(R(h * h), ratio))) >>
      ELSE IF w > maxSize \/ h > maxSize
      THEN IF w > h
           THEN <<maxSize, Round(Norm(maxSize * h, w))>>
           ELSE <<Round(Norm(maxSize * w, h)), maxSize>>
      ELSE <<w, h>>

\* the size of the texture of LOD lod for image src under pressure p
TextureSize(src, lod, p) ==
  LET targetWidth == IMax(1, Round(RMul(R(ImageDims(src)[1]), LodScale[lod + 1])))
      targetHeight == IMax(1, Round(RMul(R(ImageDims(src)[2]), LodScale[lod + 1])))
  IN  ApplyMemoryConstraints(targetWidth, targetHeight, p)

TextureMemory(st) ==
  LET RECURSIVE Sum(_)
      Sum(l) == IF l < 0 THEN 0
                ELSE st.lodTextures[l].memory + Sum(l - 1)
  IN  Sum(NumLODs - 1)

CheckMemoryPressure(st) ==
  LET usageRatio == Norm(TextureMemory(st), TextureMemoryLimit)
  IN  [st EXCEPT !.pressure =
         IF RLt(<<9, 10>>, usageRatio) THEN "critical"
         ELSE IF RLt(<<7, 10>>, usageRatio) THEN "high"
         ELSE IF RLt(<<5, 10>>, usageRatio) THEN "medium"
         ELSE "low"]


(***************************************************************************)
(* Textures, the LOD cache and the texture factory.                        *)
(***************************************************************************)
\* an absent entry of the lodTextures map
NoInfo == [texture |-> NoTexture, memory |-> 0, old |-> FALSE]

Has(st, lod) == st.lodTextures[lod].texture # NoTexture

\* gl.createTexture
CreateTexture(st, lod, src) ==
  [st EXCEPT !.gpu = Append(st.gpu, [lod |-> lod, src |-> src, live |-> TRUE])]

\* gl.deleteTexture
DeleteTexture(st, tex) == [st EXCEPT !.gpu[tex].live = FALSE]

\* this.lodTextures.set(lodLevel, {...}); lastUsed is Date.now()
StoreTexture(st, lod, tex, size) ==
  [st EXCEPT !.lodTextures[lod] =
     [texture |-> tex, memory |-> size[1] * size[2] * 4, old |-> FALSE]]

\* createLODTextureAsync(lodLevel) up to its first await, the decoding of
\* this.originalImageSrc
CreateLODTextureAsync(st, kind, lod) ==
  [st EXCEPT !.tasks = Append(st.tasks,
     [kind |-> kind, lod |-> lod, src |-> st.originalImageSrc,
      pc |-> "decode", tex |-> NoTexture, size |-> <<0, 0>>])]

\* createLODTextureAsync once it holds the image: the off-surface path when
\* this.offscreenGL is set (the target size is computed before the message
\* is posted), the idle-time path otherwise
EnterCreation(st, t) ==
  IF st.offscreenGL
  THEN [t EXCEPT !.pc = "offscreen",
                 !.size = TextureSize(t.src, t.lod, st.pressure)]
  ELSE [t EXCEPT !.pc = "idle"]

SwapBuffers(st, newTexture, newLOD) ==
  [st EXCEPT !.backTexture = newTexture,
             !.isBackBufferReady = TRUE,
             !.rafQueue = Append(st.rafQueue, [kind |-> "swap", lod |-> newLOD])]

PreloadAdjacentLODs(st, lod) ==
  LET st1 == IF lod < NumLODs - 1 /\ ~Has(st, lod + 1)
             THEN CreateLODTextureAsync(st, "preload", lod + 1) ELSE st
  IN  IF lod > 0 /\ ~Has(st, lod - 1)
      THEN CreateLODTextureAsync(st1, "preload", lod - 1) ELSE st1

UpdateLODIfNeeded(st) ==
  LET optimalLOD == SelectOptimalLOD(st)
  IN  IF optimalLOD = st.currentLOD THEN st
      ELSE IF Has(st, optimalLOD)
      THEN PreloadAdjacentLODs(
             SwapBuffers(st, st.lodTextures[optimalLOD].texture, optimalLOD),
             optimalLOD)
      ELSE CreateLODTextureAsync(st, "lod", optimalLOD)

\* The texture id a successful creation returned, NoTexture for null.
\* createTextureMainThread(lodLevel, image): outcome "ok", "glError" (the
\* texture is allocated and the upload fails) or "noTexture".
CreateTextureMainThread(st, lod, src, outcome) ==
  IF outcome = "noTexture" THEN [st |-> st, tex |-> NoTexture]
  ELSE LET st1 == CreateTexture(st, lod, src)
           tex == Len(st1.gpu)
       IN  IF outcome = "glError"
           THEN [st |-> DeleteTexture(st1, tex), tex |-> NoTexture]
           ELSE [st |-> StoreTexture(st1, lod, tex,
                                     TextureSize(src, lod, st.pressure)),
                 tex |-> tex]

\* an updateLODIfNeeded that takes the level as current when the creation
\* returned null
ResumeUpdateLODMarks(st, lod, tex) ==
  IF tex # NoTexture THEN PreloadAdjacentLODs(SwapBuffers(st, tex, lod), lod)
  ELSE [st EXCEPT !.currentLOD = lod]

\* updateLODIfNeeded after its await
ResumeUpdateLOD(st, lod, tex) ==
  IF tex # NoTexture THEN PreloadAdjacentLODs(SwapBuffers(st, tex, lod), lod)
  ELSE st

\* createInitialTexture once it holds a texture, and the rest of loadImage
ResumeLoadImage(st, lod, tex) ==
  NotifyZoomChange(
    UpdateLODIfNeeded([st EXCEPT !.currentLOD = lod, !.frontTexture = tex,
                                 !.imageLoaded = TRUE]))

(***************************************************************************)
(* Memory monitor.                                                         *)
(***************************************************************************)
RECURSIVE Evict(_, _, _)
\* delete the texture of every level of the set drop, from level l down
Evict(st, drop, l) ==
  IF l < 0 THEN st
  ELSE IF l \in drop /\ Has(st, l)
  THEN Evict([DeleteTexture(st, st.lodTextures[l].texture)
                EXCEPT !.lodTextures[l] = NoInfo], drop, l - 1)
  ELSE Evict(st, drop, l - 1)

EmergencyCleanup(st) ==
  Evict(st, LODs \ {st.currentLOD, st.currentLOD - 1, st.currentLOD + 1},
        NumLODs - 1)

CleanupOldTextures(st) ==
  Evict(st, {l \in LODs : l # st.currentLOD /\ st.lodTextures[l].old},
        NumLODs - 1)

UpdateMemoryInfo(st) ==
  LET st1 == CheckMemoryPressure(st)
  IN  IF st1.pressure = "critical" THEN EmergencyCleanup(st1)
      ELSE IF st1.pressure = "high" THEN CleanupOldTextures(st1)
      ELSE st1

(***************************************************************************)
(* Animation and rendering.                                                *)
(***************************************************************************)
NoAnim ==
  [ on |-> FALSE, duration |-> 0,
    startScale |-> One, startTranslateX |-> Zero, startTranslateY |-> Zero,
    targetScale |-> One, targetTranslateX |-> Zero, targetTranslateY |-> Zero ]

\* progress values elapsed / animationDuration a frame can observe
Progresses == {<<1, 2>>, One}

EaseOutQuart(t) ==
  LET u == RSub(One, t) IN RSub(One, RMul(RMul(u, u), RMul(u, u)))

Lerp(a, b, e) == RAdd(a, RMul(RSub(b, a), e))

StartAnimation(st, targetScale, targetTranslateX, targetTranslateY, animationTime) ==
  LET tgt == ConstrainImagePosition(
               [st EXCEPT !.scale = targetScale,
                          !.translateX = targetTranslateX,
                          !.translateY = targetTranslateY])
  IN  [st EXCEPT !.anim =
         [ on |-> TRUE,
           duration |-> IF animationTime # 0 THEN animationTime
                        ELSE IF st.cfg.smooth THEN 300 ELSE 0,
           startScale |-> st.scale,
           startTranslateX |-> st.translateX,
           startTranslateY |-> st.translateY,
           targetScale |-> targetScale,
           targetTranslateX |-> tgt.translateX,
           targetTranslateY |-> tgt.translateY ]]

\* an updateAnimation that ends the animation where the last tick left it
UpdateAnimationNoSnap(st, p) ==
  LET a == st.anim
      progress == IF a.duration = 0 THEN One ELSE RMin(p, One)
      easedProgress == IF st.cfg.smooth THEN EaseOutQuart(progress) ELSE progress
  IN  NotifyZoomChange(
        IF RLe(One, progress)
        THEN UpdateLODIfNeeded([st EXCEPT !.anim = NoAnim])
        ELSE [st EXCEPT
                !.scale = Lerp(a.startScale, a.targetScale, easedProgress),
                !.translateX = Lerp(a.startTranslateX, a.targetTranslateX, easedProgress),
                !.translateY = Lerp(a.startTranslateY, a.targetTranslateY, easedProgress)])

\* an updateAnimation that ends without the call of updateLODIfNeeded
UpdateAnimationNoLOD(st, p) ==
  LET a == st.anim
      progress == IF a.duration = 0 THEN One ELSE RMin(p, One)
      easedProgress == IF st.cfg.smooth THEN EaseOutQuart(progress) ELSE progress
  IN  NotifyZoomChange(
        IF RLe(One, progress)
        THEN [st EXCEPT !.anim = NoAnim,
                        !.scale = a.targetScale,
                        !.translateX = a.targetTranslateX,
                        !.translateY = a.targetTranslateY]
        ELSE [st EXCEPT
                !.scale = Lerp(a.startScale, a.targetScale, easedProgress),
                !.translateX = Lerp(a.startTranslateX, a.targetTranslateX, easedProgress),
                !.translateY = Lerp(a.startTranslateY, a.targetTranslateY, easedProgress)])

\* updateAnimation for a frame whose elapsed / animationDuration is p; with
\* a duration of 0 and time elapsed the quotient is Infinity and progress 1
UpdateAnimation(st, p) ==
  LET a == st.anim
      progress == IF a.duration = 0 THEN One ELSE RMin(p, One)
      easedProgress == IF st.cfg.smooth THEN EaseOutQuart(progress) ELSE progress
  IN  NotifyZoomChange(
        IF RLe(One, progress)
        THEN UpdateLODIfNeeded(
               [st EXCEPT !.anim = NoAnim,
                          !.scale = a.targetScale,
                          !.translateX = a.targetTranslateX,
                          !.translateY = a.targetTranslateY])
        ELSE [st EXCEPT
                !.scale = Lerp(a.startScale, a.targetScale, easedProgress),
                !.translateX = Lerp(a.startTranslateX, a.targetTranslateX, easedProgress),
                !.translateY = Lerp(a.startTranslateY, a.targetTranslateY, easedProgress)])

\* a renderFrame that binds the staged texture once one is ready
DrawStagedTexture(st) ==
  IF st.isBackBufferReady THEN st.backTexture ELSE st.frontTexture

\* the texture renderFrame binds to TEXTURE_2D for its draw call
DrawTexture(st) == st.frontTexture

\* drawn records the draw call: the texture bound, and the front texture,
\* the staged texture and the teardown flag at that moment, and whether the
\* texture bound had been deleted
RenderFrame(st) ==
  IF st.frontTexture = NoTexture \/ ~st.imageLoaded THEN st
  ELSE [st EXCEPT !.drawn = [tex |-> DrawTexture(st),
                             front |-> st.frontTexture,
                             back |-> IF st.isBackBufferReady
                                      THEN st.backTexture ELSE NoTexture,
                             afterDestroy |-> st.destroyed,
                             deleted |-> /\ DrawTexture(st) # NoTexture
                                         /\ ~st.gpu[DrawTexture(st)].live]]

\* the render callback of startRenderLoop, which registers itself again
Render(st, p) ==
  LET st1 == IF st.anim.on THEN UpdateAnimation(st, p) ELSE st
      st2 == RenderFrame(st1)
  IN  [st2 EXCEPT !.rafQueue = Append(st2.rafQueue, [kind |-> "render", lod |-> 0])]

\* the callback swapBuffers registered
SwapCallback(st, newLOD) ==
  IF st.isBackBufferReady
  THEN [st EXCEPT !.frontTexture = st.backTexture,
                  !.currentLOD = newLOD,
                  !.isBackBufferReady = FALSE]
  ELSE st

RECURSIVE RunCallbacks(_, _, _)
\* the callbacks q of one animation frame, in registration order
RunCallbacks(st, q, p) ==
  IF q = <<>> THEN st
  ELSE RunCallbacks(IF Head(q).kind = "render" THEN Render(st, p)
                    ELSE SwapCallback(st, Head(q).lod),
                    Tail(q), p)

(***************************************************************************)
(* Zoom, double activation, teardown.                                      *)
(***************************************************************************)
\* a zoomAt that clamps the new scale into the range and applies it
ZoomAtClamped(st, x, y, scaleFactor, animated) ==
  LET newScale == Clamp(RMul(st.scale, scaleFactor), AbsoluteMinScale(st),
                        EffectiveMaxScale(st))
      zoomX == RDiv(RSub(RSub(x, Norm(st.canvasWidth, 2)), st.translateX), st.scale)
      zoomY == RDiv(RSub(RSub(y, Norm(st.canvasHeight, 2)), st.translateY), st.scale)
      newX == RSub(RSub(x, Norm(st.canvasWidth, 2)), RMul(zoomX, newScale))
      newY == RSub(RSub(y, Norm(st.canvasHeight, 2)), RMul(zoomY, newScale))
  IN  IF animated /\ st.cfg.smooth
      THEN StartAnimation(st, newScale, newX, newY, 0)
      ELSE UpdateLODIfNeeded(NotifyZoomChange(ConstrainImagePosition(
             [st EXCEPT !.scale = newScale, !.translateX = newX,
                        !.translateY = newY])))

ZoomAt(st, x, y, scaleFactor, animated) ==
  LET newScale == RMul(st.scale, scaleFactor)
      zoomX == RDiv(RSub(RSub(x, Norm(st.canvasWidth, 2)), st.translateX), st.scale)
      zoomY == RDiv(RSub(RSub(y, Norm(st.canvasHeight, 2)), st.translateY), st.scale)
      newX == RSub(RSub(x, Norm(st.canvasWidth, 2)), RMul(zoomX, newScale))
      newY == RSub(RSub(y, Norm(st.canvasHeight, 2)), RMul(zoomY, newScale))
  IN  IF RLt(newScale, AbsoluteMinScale(st)) \/ RLt(EffectiveMaxScale(st), newScale)
      THEN st
      ELSE IF animated /\ st.cfg.smooth
      THEN StartAnimation(st, newScale, newX, newY, 0)
      ELSE UpdateLODIfNeeded(NotifyZoomChange(ConstrainImagePosition(
             [st EXCEPT !.scale = newScale, !.translateX = newX,
                        !.translateY = newY])))

PerformDoubleClickAction(st0, x, y) ==
  LET st == [st0 EXCEPT !.anim = NoAnim]
      fit == GetFitToScreenScale(st)
      targetScale ==
        IF st.isOriginalSize
        THEN RMax(AbsoluteMinScale(st), RMin(EffectiveMaxScale(st), fit))
        ELSE RMax(AbsoluteMinScale(st), RMin(EffectiveMaxScale(st), One))
      zoomX == RDiv(RSub(RSub(x, Norm(st.canvasWidth, 2)), st.translateX), st.scale)
      zoomY == RDiv(RSub(RSub(y, Norm(st.canvasHeight, 2)), st.translateY), st.scale)
      targetTranslateX == RSub(RSub(x, Norm(st.canvasWidth, 2)), RMul(zoomX, targetScale))
      targetTranslateY == RSub(RSub(y, Norm(st.canvasHeight, 2)), RMul(zoomY, targetScale))
  IN  IF st.cfg.dblMode = "toggle"
      THEN [StartAnimation(st, targetScale, targetTranslateX, targetTranslateY,
                           st.cfg.dblAnimationTime)
              EXCEPT !.isOriginalSize = ~st.isOriginalSize]
      ELSE ZoomAt(st, x, y, st.cfg.dblStep, FALSE)

\* a double-tap test that admits 300 ms and 50 pixels
IsDoubleTapInclusive(st, x, y) ==
  /\ ~st.cfg.dblDisabled
  /\ st.lastTouchAge <= 300
  /\ RLe(RAbs(RSub(x, st.lastTouchX)), TapSlop)
  /\ RLe(RAbs(RSub(y, st.lastTouchY)), TapSlop)

\* the double-tap test of handleTouchStart for a touch at (x, y)
IsDoubleTap(st, x, y) ==
  /\ ~st.cfg.dblDisabled
  /\ st.lastTouchAge < 300
  /\ RLt(RAbs(RSub(x, st.lastTouchX)), TapSlop)
  /\ RLt(RAbs(RSub(y, st.lastTouchY)), TapSlop)

\* a handleTouchStart that records the second tap of a double tap as a tap
TouchStartKeepsTimer(st, x, y) ==
  IF st.anim.on \/ st.cfg.panningDisabled THEN st
  ELSE IF IsDoubleTap(st, x, y)
  THEN [PerformDoubleClickAction(st, x, y) EXCEPT !.lastTouchAge = 0]
  ELSE [st EXCEPT !.isDragging = TRUE, !.lastTouchAge = 0,
                  !.lastTouchX = x, !.lastTouchY = y]

\* handleTouchStart with one finger at (x, y); lastTouchTime = 0 makes the
\* age 300 or more
TouchStartOne(st, x, y) ==
  IF st.anim.on \/ st.cfg.panningDisabled THEN st
  ELSE IF IsDoubleTap(st, x, y)
  THEN [PerformDoubleClickAction(st, x, y) EXCEPT !.lastTouchAge = 300]
  ELSE [st EXCEPT !.isDragging = TRUE, !.lastTouchAge = 0,
                  !.lastTouchX = x, !.lastTouchY = y]

\* a cleanupWebGLResources that drops the references and deletes nothing
ForgetTextures(st) ==
  [st EXCEPT !.frontTexture = NoTexture, !.backTexture = NoTexture]

CleanupWebGLResources(st) ==
  [Evict(st, LODs, NumLODs - 1) EXCEPT !.frontTexture = NoTexture,
                                       !.backTexture = NoTexture]

\* a destroy that forgets the handle and leaves the callback registered
ForgetRenderLoop(st) == [st EXCEPT !.renderLoop = FALSE]

\* cancelAnimationFrame(this.renderLoop)
CancelRenderLoop(st) ==
  [st EXCEPT !.rafQueue = SelectSeq(st.rafQueue, LAMBDA c : c.kind # "render"),
             !.renderLoop = FALSE]

DestroyEngine(st) ==
  CleanupWebGLResources(
    CancelRenderLoop([st EXCEPT !.listeners = FALSE, !.destroyed = TRUE]))


(***************************************************************************)
(* Initial state: the engine as its constructor leaves it.                 *)
(***************************************************************************)
\* The log before any call.  op names the last input handler or command
\* that ran, (x, y) is its anchor, k its scale factor and from the scale it
\* found; fired tells whether it ran the double activation; run counts the
\* toggle activations made in a row at one anchor, each on a finished
\* animation, and runFrom is the scale the first of them found; prevSrc is
\* the source URL the last loadImage call found; failedLOD is the level of
\* the last live LOD change whose texture creation returned null; rejected
\* is the kind of the call whose promise the last failure rejected: "boot"
\* for loadImage, "lod" for updateLODIfNeeded, "preload" for a preload, and
\* "none" when the failure was turned into a null result.
NoLog ==
  [ op |-> "none", x |-> Zero, y |-> Zero, k |-> One, from |-> One,
    fired |-> FALSE, run |-> 0, runFrom |-> One, prevSrc |-> 0,
    failedLOD |-> -1, rejected |-> "none" ]

Called(name, x, y, k) ==
  [log EXCEPT !.op = name, !.x = x, !.y = y, !.k = k, !.from = scale,
              !.fired = FALSE, !.run = 0]

Activated(name, x, y) ==
  LET again == /\ log.run = 1 /\ log.fired /\ ~anim.on
               /\ log.x = x /\ log.y = y
  IN  [Called(name, x, y, IF cfg.dblMode = "zoom" THEN cfg.dblStep ELSE One)
         EXCEPT
         !.fired = TRUE,
         !.run = IF cfg.dblMode # "toggle" THEN 0
                 ELSE IF again THEN 2 ELSE 1,
         !.runFrom = IF again THEN log.runFrom ELSE scale]

RenderEntry == [kind |-> "render", lod |-> 0]

InitEngine(configs, offscreen, viewports) ==
  /\ cfg \in configs
  /\ offscreenGL \in offscreen
  /\ \E vp \in viewports : canvasWidth = vp[1] /\ canvasHeight = vp[2]
  /\ imageWidth = 0 /\ imageHeight = 0
  /\ imageLoaded = FALSE
  /\ originalImageSrc = 0
  /\ scale = One /\ translateX = Zero /\ translateY = Zero
  /\ anim = NoAnim
  /\ isOriginalSize = FALSE
  /\ isDragging = FALSE
  /\ pinching = FALSE
  /\ dblRecent = FALSE
  /\ lastTouchAge = 300 /\ lastTouchX = Zero /\ lastTouchY = Zero
  /\ frontTexture = NoTexture /\ backTexture = NoTexture
  /\ isBackBufferReady = FALSE
  /\ currentLOD = 0
  /\ lodTextures = [l \in LODs |-> NoInfo]
  /\ pressure = "low"
  /\ gpu = <<>>
  /\ tasks = <<>>
  /\ rafQueue = <<RenderEntry>>
  /\ renderLoop = TRUE
  /\ listeners = TRUE
  /\ destroyed = FALSE
  /\ drawn = [tex |-> NoTexture, front |-> NoTexture, back |-> NoTexture,
              afterDestroy |-> FALSE, deleted |-> FALSE]
  /\ zoomReported = <<>>
  /\ log = NoLog

(***************************************************************************)
(* Actions.                                                                *)
(***************************************************************************)
\* a step to the engine state st, within the bounds of the model
Step(st) ==
  /\ Len(st.tasks) <= MaxTasks
  /\ Len(st.gpu) <= MaxTextures
  /\ Apply(st)

\* a call of the host or an input event that changes the transform
UserOp ==
  /\ listeners
  /\ imageWidth > 0
  /\ opsLeft > 0
  /\ opsLeft' = opsLeft - 1
  /\ UNCHANGED <<loadsLeft, faultsLeft>>

Fault ==
  /\ faultsLeft > 0
  /\ faultsLeft' = faultsLeft - 1
  /\ UNCHANGED <<opsLeft, loadsLeft>>

RemoveAt(q, i) == [j \in 1..(Len(q) - 1) |-> IF j < i THEN q[j] ELSE q[j + 1]]

WithoutTask(st, i) == [st EXCEPT !.tasks = RemoveAt(st.tasks, i)]

\* loadImage(url) up to its await of the decoder
LoadImage(src) ==
  /\ listeners
  /\ loadsLeft > 0
  /\ \A i \in 1..Len(tasks) : tasks[i].kind # "boot"
  /\ loadsLeft' = loadsLeft - 1
  /\ UNCHANGED <<opsLeft, faultsLeft>>
  /\ log' = [Called("loadImage", Zero, Zero, One) EXCEPT
               !.prevSrc = originalImageSrc]
  /\ Step([Cur EXCEPT
       !.originalImageSrc = src,
       !.tasks = Append(tasks, [kind |-> "boot", lod |-> 0, src |-> src,
                                pc |-> "decode", tex |-> NoTexture,
                                size |-> <<0, 0>>])])

\* loadImage after its await: the image size, the initial scale, and
\* createInitialTexture up to the scheduling of the texture creation
LoadDecoded(st, t) ==
  LET st1 == [st EXCEPT !.imageWidth = ImageDims(t.src)[1],
                        !.imageHeight = ImageDims(t.src)[2]]
      st2 == IF st1.cfg.centerOnInit THEN FitImageToScreen(st1)
             ELSE [st1 EXCEPT !.scale = RMul(GetFitToScreenScale(st1),
                                             st1.cfg.initialScale)]
  IN  [st |-> st2, t |-> [t EXCEPT !.lod = SelectOptimalLOD(st2)]]

\* the decoder delivers the image a creation waits for
TaskDecoded(i) ==
  /\ i \in 1..Len(tasks)
  /\ tasks[i].pc = "decode"
  /\ UNCHANGED <<opsLeft, loadsLeft, faultsLeft>>
  /\ log' = IF tasks[i].kind = "boot"
            THEN [Called("loadImage", Zero, Zero, One) EXCEPT !.from = log.from]
            ELSE log
  /\ LET r == IF tasks[i].kind = "boot" THEN LoadDecoded(Cur, tasks[i])
              ELSE [st |-> Cur, t |-> tasks[i]]
     IN  Step([r.st EXCEPT !.tasks[i] = EnterCreation(r.st, r.t)])

\* the decoder rejects.  loadImage catches, logs and throws again.  In
\* createLODTextureAsync the await of the decoder stands before the try
\* block, so its promise rejects, and with it the promise of
\* updateLODIfNeeded, which no caller awaits or catches.
TaskDecodeFails(i) ==
  /\ i \in 1..Len(tasks)
  /\ tasks[i].pc = "decode"
  /\ Fault
  /\ log' = [log EXCEPT !.rejected = tasks[i].kind]
  /\ Step(WithoutTask(Cur, i))

\* createTextureOffscreen's createTexture task: the texture is allocated
TaskOffscreenAllocates(i) ==
  /\ i \in 1..Len(tasks)
  /\ tasks[i].pc = "offscreen"
  /\ UNCHANGED <<opsLeft, loadsLeft, faultsLeft, log>>
  /\ LET st1 == CreateTexture(Cur, tasks[i].lod, tasks[i].src)
     IN  Step([st1 EXCEPT !.tasks[i].pc = "upload",
                          !.tasks[i].tex = Len(st1.gpu)])

\* gl.createTexture returns null or the staging canvas throws: the
\* off-surface path resolves null and the idle-time path is scheduled
TaskOffscreenFails(i) ==
  /\ i \in 1..Len(tasks)
  /\ tasks[i].pc = "offscreen"
  /\ Fault
  /\ log' = [log EXCEPT !.rejected = "none"]
  /\ Step([Cur EXCEPT !.tasks[i].pc = "idle"])

\* what the caller of createLODTextureAsync does with its result
Resume(st, t, tex) ==
  CASE t.kind = "boot" -> ResumeLoadImage(st, t.lod, tex)
    [] t.kind = "lod" -> ResumeUpdateLOD(st, t.lod, tex)
    [] OTHER -> st

\* the bitmap is uploaded without error: the texture is cached and returned
TaskUploaded(i) ==
  /\ i \in 1..Len(tasks)
  /\ tasks[i].pc = "upload"
  /\ UNCHANGED <<opsLeft, loadsLeft, faultsLeft, log>>
  /\ LET t == tasks[i]
     IN  Step(Resume(StoreTexture(WithoutTask(Cur, i), t.lod, t.tex, t.size),
                     t, t.tex))

\* the conversion or the upload fails: the texture is deleted, the
\* off-surface path resolves null and the idle-time path is scheduled
TaskUploadFails(i) ==
  /\ i \in 1..Len(tasks)
  /\ tasks[i].pc = "upload"
  /\ Fault
  /\ log' = [log EXCEPT !.rejected = "none"]
  /\ Step([DeleteTexture(Cur, tasks[i].tex) EXCEPT
             !.tasks[i].pc = "idle", !.tasks[i].tex = NoTexture])

\* the idle callback of createTextureMainThreadAsync creates the texture
TaskIdleCreates(i) ==
  /\ i \in 1..Len(tasks)
  /\ tasks[i].pc = "idle"
  /\ UNCHANGED <<opsLeft, loadsLeft, faultsLeft, log>>
  /\ LET t == tasks[i]
         r == CreateTextureMainThread(WithoutTask(Cur, i), t.lod, t.src, "ok")
     IN  Step(Resume(r.st, t, r.tex))

\* the idle callback fails.  A live LOD change or a preload ends with null;
\* createInitialTexture falls back to the synchronous method (outcome fb)
\* and throws when that fails too.
TaskIdleFails(i, outcome, fb) ==
  /\ i \in 1..Len(tasks)
  /\ tasks[i].pc = "idle"
  /\ outcome # "ok"
  /\ LET t == tasks[i]
         r == CreateTextureMainThread(WithoutTask(Cur, i), t.lod, t.src, outcome)
         r2 == CreateTextureMainThread(r.st, t.lod, t.src, fb)
         cost == IF t.kind = "boot" /\ fb # "ok" THEN 2 ELSE 1
     IN  /\ t.kind # "boot" => fb = "ok"
         /\ cost <= faultsLeft
         /\ faultsLeft' = faultsLeft - cost
         /\ UNCHANGED <<opsLeft, loadsLeft>>
         /\ log' = [log EXCEPT
                      !.failedLOD = IF t.kind = "lod" THEN t.lod ELSE @,
                      !.rejected = IF t.kind = "boot" /\ r2.tex = NoTexture
                                   THEN "boot" ELSE "none"]
         /\ Step(IF t.kind # "boot" THEN Resume(r.st, t, NoTexture)
                 ELSE IF r2.tex # NoTexture THEN Resume(r2.st, t, r2.tex)
                 ELSE r2.st)

\* one animation frame: every registered callback runs, in order
Frame(p) ==
  /\ rafQueue # <<>>
  /\ p \in (IF anim.on THEN Progresses ELSE {One})
  /\ UNCHANGED <<opsLeft, loadsLeft, faultsLeft, log>>
  /\ Step(RunCallbacks([Cur EXCEPT !.rafQueue = <<>>], rafQueue, p))

\* the setInterval callback of startMemoryMonitoring (never cleared)
MemoryMonitor ==
  /\ UNCHANGED <<opsLeft, loadsLeft, faultsLeft, log>>
  /\ Step(UpdateMemoryInfo(Cur))

\* 300 ms pass without a double click
Pass300ms ==
  /\ dblRecent \/ lastTouchAge < 300
  /\ UNCHANGED <<opsLeft, loadsLeft, faultsLeft, log>>
  /\ Step([Cur EXCEPT !.dblRecent = FALSE, !.lastTouchAge = 300])

\* 299 ms pass after a touch was recorded
Pass299ms ==
  /\ lastTouchAge = 0
  /\ ~dblRecent
  /\ UNCHANGED <<opsLeft, loadsLeft, faultsLeft, log>>
  /\ Step([Cur EXCEPT !.lastTouchAge = 299])

\* one more millisecond passes
Pass1ms ==
  /\ lastTouchAge = 299
  /\ ~dblRecent
  /\ UNCHANGED <<opsLeft, loadsLeft, faultsLeft, log>>
  /\ Step([Cur EXCEPT !.lastTouchAge = 300])

\* more than 30 s pass: every cached texture is older than maxAge
Pass30s ==
  /\ \E l \in LODs : Has(Cur, l) /\ ~lodTextures[l].old
  /\ UNCHANGED <<opsLeft, loadsLeft, faultsLeft, log>>
  /\ Step([Cur EXCEPT
       !.dblRecent = FALSE,
       !.lastTouchAge = 300,
       !.lodTextures = [l \in LODs |->
          IF Has(Cur, l) THEN [lodTextures[l] EXCEPT !.old = TRUE]
          ELSE NoInfo]])

Resize(vp) ==
  /\ listeners
  /\ vp \in Viewports
  /\ vp # <<canvasWidth, canvasHeight>>
  /\ opsLeft > 0
  /\ opsLeft' = opsLeft - 1
  /\ UNCHANGED <<loadsLeft, faultsLeft>>
  /\ log' = Called("resize", Zero, Zero, One)
  /\ LET st1 == [Cur EXCEPT !.canvasWidth = vp[1], !.canvasHeight = vp[2]]
     IN  Step(IF imageLoaded
              THEN NotifyZoomChange(
                     UpdateLODIfNeeded(ConstrainScaleAndPosition(st1)))
              ELSE st1)

HandleWheel(x, y, up) ==
  /\ UserOp
  /\ log' = Called("wheel", x, y, IF up THEN RAdd(One, cfg.wheelStep)
                                  ELSE RSub(One, cfg.wheelStep))
  /\ Step(IF anim.on \/ cfg.wheelDisabled THEN Cur
          ELSE ZoomAt(Cur, x, y,
                      IF up THEN RAdd(One, cfg.wheelStep)
                      ELSE RSub(One, cfg.wheelStep), FALSE))

HandleMouseDown ==
  /\ listeners
  /\ ~isDragging
  /\ UNCHANGED <<opsLeft, loadsLeft, faultsLeft, log>>
  /\ Step(IF anim.on \/ cfg.panningDisabled THEN Cur
          ELSE [Cur EXCEPT !.isDragging = TRUE])

HandleMouseMove(d) ==
  /\ UserOp
  /\ log' = Called("mouseMove", Zero, Zero, One)
  /\ isDragging
  /\ Step(IF cfg.panningDisabled THEN Cur
          ELSE ConstrainImagePosition(
                 [Cur EXCEPT !.translateX = RAdd(translateX, R(d[1])),
                             !.translateY = RAdd(translateY, R(d[2]))]))

HandleMouseUp ==
  /\ listeners
  /\ isDragging
  /\ UNCHANGED <<opsLeft, loadsLeft, faultsLeft, log>>
  /\ Step([Cur EXCEPT !.isDragging = FALSE])

HandleDoubleClick(x, y) ==
  /\ UserOp
  /\ log' = IF cfg.dblDisabled \/ dblRecent THEN log
            ELSE Activated("doubleClick", x, y)
  /\ Step(IF cfg.dblDisabled \/ dblRecent THEN Cur
          ELSE PerformDoubleClickAction([Cur EXCEPT !.dblRecent = TRUE], x, y))

\* touchstart with one finger at (x, y)
HandleTouchStart1(x, y) ==
  /\ UserOp
  /\ log' = IF ~anim.on /\ ~cfg.panningDisabled /\ IsDoubleTap(Cur, x, y)
            THEN Activated("touchStart", x, y)
            ELSE Called("touchStart", x, y, One)
  /\ Step(TouchStartOne(Cur, x, y))

\* touchmove with one finger that moved by d
HandleTouchMove1(d) ==
  /\ UserOp
  /\ isDragging
  /\ log' = Called("touchMove", Zero, Zero, One)
  /\ Step(IF cfg.panningDisabled THEN Cur
          ELSE ConstrainImagePosition(
                 [Cur EXCEPT !.translateX = RAdd(translateX, R(d[1])),
                             !.translateY = RAdd(translateY, R(d[2]))]))

\* touchstart with two fingers
HandleTouchStart2 ==
  /\ listeners
  /\ ~pinching
  /\ UNCHANGED <<opsLeft, loadsLeft, faultsLeft, log>>
  /\ Step(IF anim.on \/ cfg.pinchDisabled THEN Cur
          ELSE [Cur EXCEPT !.isDragging = FALSE, !.pinching = TRUE])

\* touchmove with two fingers whose distance changed by factor f
HandleTouchMove2(x, y, f) ==
  /\ UserOp
  /\ log' = Called("pinch", x, y, f)
  /\ Step(IF cfg.pinchDisabled THEN Cur
          ELSE [(IF pinching THEN ZoomAt(Cur, x, y, f, FALSE) ELSE Cur)
                  EXCEPT !.pinching = TRUE])

HandleTouchEnd ==
  /\ listeners
  /\ isDragging \/ pinching
  /\ UNCHANGED <<opsLeft, loadsLeft, faultsLeft, log>>
  /\ Step([Cur EXCEPT !.isDragging = FALSE, !.pinching = FALSE])

ZoomIn(animated) ==
  /\ UserOp
  /\ log' = Called("zoomIn", Norm(canvasWidth, 2), Norm(canvasHeight, 2),
                   RAdd(One, cfg.wheelStep))
  /\ Step(ZoomAt(Cur, Norm(canvasWidth, 2), Norm(canvasHeight, 2),
                 RAdd(One, cfg.wheelStep), animated))

ZoomOut(animated) ==
  /\ UserOp
  /\ log' = Called("zoomOut", Norm(canvasWidth, 2), Norm(canvasHeight, 2),
                   RSub(One, cfg.wheelStep))
  /\ Step(ZoomAt(Cur, Norm(canvasWidth, 2), Norm(canvasHeight, 2),
                 RSub(One, cfg.wheelStep), animated))

ResetView ==
  /\ UserOp
  /\ log' = Called("resetView", Zero, Zero, One)
  /\ Step(StartAnimation(Cur, RMul(GetFitToScreenScale(Cur), cfg.initialScale),
                         Zero, Zero, 0))

Destroy ==
  /\ ~destroyed
  /\ UNCHANGED <<opsLeft, loadsLeft, faultsLeft, log>>
  /\ Step(DestroyEngine(Cur))

Outcomes == {"ok", "glError", "noTexture"}

\* The texture lifecycle: loading, texture creations completing in any
\* order, frames, teardown, and the operations that change the scale ratio
\* or the viewport and with them the LOD policy's choice.
Next ==
  \/ \E src \in Images : LoadImage(src)
  \/ \E i \in 1..MaxTasks : TaskDecoded(i)
  \/ \E i \in 1..MaxTasks : TaskOffscreenAllocates(i)
  \/ \E i \in 1..MaxTasks : TaskUploaded(i)
  \/ \E i \in 1..MaxTasks : TaskIdleCreates(i)
  \/ \E p \in Progresses : Frame(p)
  \/ Pass300ms
  \/ \E vp \in Viewports : Resize(vp)
  \/ \E a \in Anchors(canvasWidth, canvasHeight) : HandleDoubleClick(a[1], a[2])
  \/ \E animated \in BOOLEAN : ZoomIn(animated)
  \/ \E animated \in BOOLEAN : ZoomOut(animated)
  \/ ResetView
  \/ Destroy

Init ==
  /\ InitEngine({DefaultConfig}, BOOLEAN, Viewports)
  /\ opsLeft = MaxOps /\ loadsLeft = MaxLoads /\ faultsLeft = 0

Spec == Init /\ [][Next]_vars

\* The texture lifecycle under the memory monitor: the interval callback and
\* the passing of time run between the steps of loading, texture creation,
\* zooming and frames.
NextMemory ==
  \/ \E src \in Images : LoadImage(src)
  \/ \E i \in 1..MaxTasks : TaskDecoded(i)
  \/ \E i \in 1..MaxTasks : TaskOffscreenAllocates(i)
  \/ \E i \in 1..MaxTasks : TaskUploaded(i)
  \/ \E i \in 1..MaxTasks : TaskIdleCreates(i)
  \/ \E p \in Progresses : Frame(p)
  \/ MemoryMonitor
  \/ Pass30s
  \/ \E a \in Anchors(canvasWidth, canvasHeight) : HandleDoubleClick(a[1], a[2])
  \/ \E animated \in BOOLEAN : ZoomIn(animated)
  \/ \E animated \in BOOLEAN : ZoomOut(animated)

InitMemory ==
  /\ InitEngine({DefaultConfig}, BOOLEAN, {<<8, 6>>})
  /\ opsLeft = MaxOps /\ loadsLeft = MaxLoads /\ faultsLeft = 0

SpecMemory == InitMemory /\ [][NextMemory]_vars

\* Loading and texture creation with the failures of the decoder, of texture
\* allocation and of the upload.
NextFaults ==
  \/ \E src \in Images : LoadImage(src)
  \/ \E i \in 1..MaxTasks : TaskDecoded(i)
  \/ \E i \in 1..MaxTasks : TaskDecodeFails(i)
  \/ \E i \in 1..MaxTasks : TaskOffscreenAllocates(i)
  \/ \E i \in 1..MaxTasks : TaskOffscreenFails(i)
  \/ \E i \in 1..MaxTasks : TaskUploaded(i)
  \/ \E i \in 1..MaxTasks : TaskUploadFails(i)
  \/ \E i \in 1..MaxTasks : TaskIdleCreates(i)
  \/ \E i \in 1..MaxTasks, o \in Outcomes, fb \in Outcomes : TaskIdleFails(i, o, fb)
  \/ \E p \in Progresses : Frame(p)
  \/ \E animated \in BOOLEAN : ZoomIn(animated)

InitFaults ==
  /\ InitEngine({FineStepConfig}, BOOLEAN, {<<8, 6>>})
  /\ opsLeft = MaxOpsF /\ loadsLeft = MaxLoads /\ faultsLeft = MaxFaults

SpecFaults == InitFaults /\ [][NextFaults]_vars

\* The view transform: every input handler, the view commands, resizes and
\* frames.  The transform never reads the texture state, so texture
\* creations run here one at a time, without failures, and finish before the
\* next input or frame.
\* no texture creation is in flight
Quiet == tasks = <<>>

NextTransform ==
  \/ TaskDecoded(1)
  \/ TaskIdleCreates(1)
  \/ Quiet /\ \E src \in Images : LoadImage(src)
  \/ Quiet /\ \E p \in Progresses : Frame(p)
  \/ Quiet /\ Pass300ms
  \/ Quiet /\ \E vp \in Viewports : Resize(vp)
  \/ Quiet /\ \E a \in Anchors(canvasWidth, canvasHeight), up \in BOOLEAN :
                HandleWheel(a[1], a[2], up)
  \/ Quiet /\ HandleMouseDown
  \/ Quiet /\ \E d \in Deltas : HandleMouseMove(d)
  \/ Quiet /\ HandleMouseUp
  \/ Quiet /\ \E a \in Anchors(canvasWidth, canvasHeight) :
                HandleDoubleClick(a[1], a[2])
  \/ Quiet /\ HandleTouchStart2
  \/ Quiet /\ \E a \in Anchors(canvasWidth, canvasHeight), f \in PinchFactors :
                HandleTouchMove2(a[1], a[2], f)
  \/ Quiet /\ HandleTouchEnd
  \/ Quiet /\ \E animated \in BOOLEAN : ZoomIn(animated)
  \/ Quiet /\ \E animated \in BOOLEAN : ZoomOut(animated)
  \/ Quiet /\ ResetView

InitTransform ==
  /\ InitEngine(Configs, {FALSE}, {<<8, 6>>})
  /\ opsLeft = MaxOpsT /\ loadsLeft = MaxLoads /\ faultsLeft = 0

SpecTransform == InitTransform /\ [][NextTransform]_vars

\* The double activation by mouse, with the zoom commands that move the
\* scale away from fit and from 1:1 between two activations.
NextToggle ==
  \/ TaskDecoded(1)
  \/ TaskIdleCreates(1)
  \/ Quiet /\ \E src \in Images : LoadImage(src)
  \/ Quiet /\ \E p \in Progresses : Frame(p)
  \/ Quiet /\ Pass300ms
  \/ Quiet /\ \E a \in Anchors(canvasWidth, canvasHeight) :
                HandleDoubleClick(a[1], a[2])
  \/ Quiet /\ \E animated \in BOOLEAN : ZoomIn(animated)
  \/ Quiet /\ \E animated \in BOOLEAN : ZoomOut(animated)

InitToggle ==
  /\ InitEngine({DefaultConfig, FitFloorConfig}, {FALSE}, {<<8, 6>>})
  /\ opsLeft = MaxOpsG /\ loadsLeft = MaxLoads /\ faultsLeft = 0

SpecToggle == InitToggle /\ [][NextToggle]_vars

\* One finger touch input: taps, drags and the time between them, on the
\* first image and on an image loaded over it.
NextTouch ==
  \/ TaskDecoded(1)
  \/ TaskIdleCreates(1)
  \/ Quiet /\ \E src \in Images : LoadImage(src)
  \/ Quiet /\ \E p \in Progresses : Frame(p)
  \/ Quiet /\ Pass299ms
  \/ Quiet /\ Pass1ms
  \/ Quiet /\ Pass300ms
  \/ Quiet /\ \E pt \in TouchPoints : HandleTouchStart1(pt[1], pt[2])
  \/ Quiet /\ \E d \in Deltas : HandleTouchMove1(d)
  \/ Quiet /\ HandleTouchEnd

InitTouch ==
  /\ InitEngine(Configs, {FALSE}, {<<8, 6>>})
  /\ opsLeft = MaxOpsG /\ loadsLeft = MaxLoadsG /\ faultsLeft = 0

SpecTouch == InitTouch /\ [][NextTouch]_vars

\* An engine that shows an image through the texture of its bootstrap, with
\* no texture creation in flight, at any transform and under any pressure:
\* resizes and zooms apply the constraint and the LOD selection to it.
NextSweep ==
  \/ TaskDecoded(1)
  \/ TaskIdleCreates(1)
  \/ Quiet /\ \E p \in Progresses : Frame(p)
  \/ Quiet /\ \E vp \in Viewports : Resize(vp)
  \/ Quiet /\ \E animated \in BOOLEAN : ZoomIn(animated)
  \/ Quiet /\ \E animated \in BOOLEAN : ZoomOut(animated)

InitSweep ==
  \E c \in Configs \cup {InvertedRangeConfig}, vp \in Viewports,
     src \in Images, p \in Pressures, r \in RelativeScales,
     t \in Translations :
    LET size == TextureSize(src, 3, "low")
    IN  /\ cfg = c
        /\ offscreenGL = FALSE
        /\ canvasWidth = vp[1] /\ canvasHeight = vp[2]
        /\ imageWidth = ImageDims(src)[1] /\ imageHeight = ImageDims(src)[2]
        /\ imageLoaded = TRUE
        /\ originalImageSrc = src
        /\ scale = RMul(r, RMin(Norm(vp[1], ImageDims(src)[1]),
                                Norm(vp[2], ImageDims(src)[2])))
        /\ translateX = t[1] /\ translateY = t[2]
        /\ anim = NoAnim
        /\ isOriginalSize = FALSE
        /\ isDragging = FALSE
        /\ pinching = FALSE
        /\ dblRecent = FALSE
        /\ lastTouchAge = 300 /\ lastTouchX = Zero /\ lastTouchY = Zero
        /\ frontTexture = 1 /\ backTexture = NoTexture
        /\ isBackBufferReady = FALSE
        /\ currentLOD = 3
        /\ lodTextures = [l \in LODs |->
             IF l = 3 THEN [texture |-> 1, memory |-> size[1] * size[2] * 4,
                            old |-> FALSE]
             ELSE NoInfo]
        /\ pressure = p
        /\ gpu = << [lod |-> 3, src |-> src, live |-> TRUE] >>
        /\ tasks = <<>>
        /\ rafQueue = <<RenderEntry>>
        /\ renderLoop = TRUE
        /\ listeners = TRUE
        /\ destroyed = FALSE
        /\ drawn = [tex |-> NoTexture, front |-> NoTexture, back |-> NoTexture,
                    afterDestroy |-> FALSE, deleted |-> FALSE]
        /\ zoomReported = <<scale, r>>
        /\ log = [NoLog EXCEPT !.op = "loadImage"]
        /\ opsLeft = MaxOps /\ loadsLeft = 0 /\ faultsLeft = 0

SpecSweep == InitSweep /\ [][NextSweep]_vars

\* Animations under a running clock.  The commands and the double click
\* start animations; requestAnimationFrame keeps calling the render loop,
\* time passes, so the frame at which the duration has elapsed is not put
\* off for ever, and the decoder and the idle callbacks deliver.  This is
\* weak fairness of Frame(One), TaskDecoded(1) and TaskIdleCreates(1) in its
\* expanded form ([]<>~ENABLED <<A>>_vars \/ []<><<A>>_vars), with the
\* enabling condition of each action written as the state predicate it
\* amounts to: the guard of the action and the bounds of Step.
NextAnimate ==
  \/ TaskDecoded(1)
  \/ TaskIdleCreates(1)
  \/ Quiet /\ \E src \in Images : LoadImage(src)
  \/ \E p \in Progresses : Frame(p)
  \/ Quiet /\ Pass300ms
  \/ Quiet /\ \E a \in Anchors(canvasWidth, canvasHeight) :
                HandleDoubleClick(a[1], a[2])
  \/ Quiet /\ \E animated \in BOOLEAN : ZoomIn(animated)
  \/ Quiet /\ ResetView

InitAnimate ==
  /\ InitEngine(Configs \cup {LargeInitialConfig}, {FALSE}, {<<8, 6>>})
  /\ opsLeft = MaxOpsT /\ loadsLeft = MaxLoads /\ faultsLeft = 0

SpecAnimate ==
  /\ InitAnimate
  /\ [][NextAnimate]_vars
  /\ \/ []<>~(/\ anim.on /\ rafQueue # <<>>
              /\ LET st == RunCallbacks([Cur EXCEPT !.rafQueue = <<>>],
                                        rafQueue, One)
                 IN  Len(st.tasks) <= MaxTasks /\ Len(st.gpu) <= MaxTextures)
     \/ []<><<Frame(One)>>_vars
  /\ \/ []<>~(Len(tasks) > 0 /\ tasks[1].pc = "decode")
     \/ []<><<TaskDecoded(1)>>_vars
  /\ \/ []<>~(/\ Len(tasks) > 0 /\ tasks[1].pc = "idle"
              /\ LET r == CreateTextureMainThread(WithoutTask(Cur, 1),
                             tasks[1].lod, tasks[1].src, "ok")
                     st == Resume(r.st, tasks[1], r.tex)
                 IN  Len(st.tasks) <= MaxTasks /\ Len(st.gpu) <= MaxTextures)
     \/ []<><<TaskIdleCreates(1)>>_vars

(***************************************************************************)
(* Properties.                                                             *)
(***************************************************************************)
\* the number of entries of the lodTextures map
CacheSize == Cardinality({l \in LODs : lodTextures[l].texture # NoTexture})

\* whether texture tex is the value of an entry of the lodTextures map
Cached(tex) == \E l \in LODs : lodTextures[l].texture = tex

\* C1: in every reachable state the LOD cache holds at most one texture, and
\* exactly one whenever an image is loaded (and the engine is not torn down).
C1_SingleCachedTexture ==
  /\ CacheSize <= 1
  /\ (imageLoaded /\ ~destroyed) => CacheSize = 1

\* C2: in every reachable state a non-null front texture is the texture that
\* was produced for the LOD index stored in currentLOD.
C2_FrontMatchesCurrentLOD ==
  frontTexture # NoTexture => gpu[frontTexture].lod = currentLOD

\* C3: once an image is loaded, in every reachable state the scale lies
\* between F * minScale and max(F * maxScale, 1), F the current fit scale.
C3_ScaleWithinRange ==
  imageLoaded => /\ RLe(AbsoluteMinScale(Cur), scale)
                 /\ RLe(scale, EffectiveMaxScale(Cur))

\* C4: with limitToBounds, in every reachable state where the scale exceeds
\* the fit scale, |tx| <= (s*W - Vw)/2 and |ty| <= (s*H - Vh)/2, a bound
\* that is read as 0 along an axis on which the scaled image is not larger
\* than the viewport.
C4_TranslationWithinBounds ==
  (cfg.limitToBounds /\ imageLoaded /\ RLt(GetFitToScreenScale(Cur), scale)) =>
    /\ RLe(RAbs(translateX),
           RMax(Zero, RDiv(RSub(RMul(scale, R(imageWidth)), R(canvasWidth)), R(2))))
    /\ RLe(RAbs(translateY),
           RMax(Zero, RDiv(RSub(RMul(scale, R(imageHeight)), R(canvasHeight)), R(2))))

\* C5: every draw binds the texture referenced by front at that moment and
\* no other; a texture staged in back is not bound before its swap.
C5_DrawBindsFront == drawn.tex = drawn.front

\* a draw happened while a different texture was staged in back
C5_DrawnWhileStaged ==
  /\ drawn.tex # NoTexture
  /\ drawn.back # NoTexture
  /\ drawn.back # drawn.front

\* C6: once destroy has been called, no later completion of a texture
\* creation and no frame callback changes the cache, front, back or
\* currentLOD.
C6_NoMutationAfterDestroy ==
  [][destroyed => UNCHANGED <<lodTextures, frontTexture, backTexture, currentLOD>>]_vars

\* C7: after destroy has returned no draw call is issued, whatever
\* callbacks fire afterwards.
C7_NoDrawAfterDestroy == ~drawn.afterDestroy

\* after destroy a frame ran the callback of a swap that a late completion
\* armed, and installed a front texture
C7_FrameAfterDestroy ==
  /\ destroyed
  /\ frontTexture # NoTexture
  /\ rafQueue = <<>>

\* C8: the step of destroy leaves the listeners removed, the render-loop
\* callback cancelled, every texture of the cache deleted, the cache empty,
\* and front and back null.
C8_DestroyReleases ==
  [][(~destroyed /\ destroyed') =>
       /\ ~listeners'
       /\ ~renderLoop'
       /\ \A i \in 1..Len(rafQueue') : rafQueue'[i].kind # "render"
       /\ \A l \in LODs : lodTextures'[l] = NoInfo
       /\ \A l \in LODs : lodTextures[l].texture # NoTexture =>
                            ~gpu'[lodTextures[l].texture].live
       /\ frontTexture' = NoTexture /\ backTexture' = NoTexture]_vars

\* destroy ran on an engine whose cache held textures
C8_DestroyedLoadedEngine ==
  /\ destroyed
  /\ \E t \in 1..Len(gpu) : ~gpu[t].live

\* what the LOD policy reads: the view after the step
ViewAfterStep ==
  [ imageLoaded |-> imageLoaded', scale |-> scale', pressure |-> pressure',
    canvasWidth |-> canvasWidth', canvasHeight |-> canvasHeight',
    imageWidth |-> imageWidth', imageHeight |-> imageHeight' ]

\* C9: outside animations, a step arms a swap only for the LOD the policy
\* selects at that moment: the completion of a request the policy has moved
\* away from is discarded.
C9_SupersededCompletionDiscarded ==
  [][(/\ ~anim.on'
      /\ isBackBufferReady'
      /\ backTexture' # NoTexture
      /\ ~isBackBufferReady \/ backTexture' # backTexture) =>
       gpu'[backTexture'].lod = SelectOptimalLOD(ViewAfterStep)]_vars

\* C10: a run of the memory monitor that evicts textures leaves the texture
\* referenced by front allocated and cached.
C10_CleanupKeepsFront ==
  [][(/\ frontTexture # NoTexture
      /\ Cached(frontTexture)
      /\ \E l \in LODs : lodTextures[l] # NoInfo /\ lodTextures'[l] = NoInfo) =>
       /\ frontTexture' = frontTexture
       /\ gpu'[frontTexture].live
       /\ Cached(frontTexture)']_vars

\* the step ran a handler or command that calls zoomAt with factor log'.k
ZoomCalled ==
  /\ opsLeft' < opsLeft
  /\ \/ log'.op \in {"wheel", "pinch", "zoomIn", "zoomOut"}
     \/ log'.op \in {"doubleClick", "touchStart"} /\ log'.fired
                                                 /\ cfg.dblMode = "zoom"

\* scale s lies outside [F * minScale, max(F * maxScale, 1)]
OutOfRange(s) ==
  RLt(s, AbsoluteMinScale(Cur)) \/ RLt(EffectiveMaxScale(Cur), s)

\* C11: a wheel event, or any call of zoomAt, whose new scale s * k would
\* leave [F * minScale, max(F * maxScale, 1)] changes neither s nor tx nor
\* ty, starts no animation (an animation that runs after the step is the
\* one that ran before it) and requests no LOD: no texture creation is
\* started and no swap is armed.
C11_OutOfRangeZoomIsNoOp ==
  [][(ZoomCalled /\ OutOfRange(RMul(scale, log'.k)))
       => /\ UNCHANGED <<scale, translateX, translateY, tasks,
                         backTexture, isBackBufferReady, rafQueue>>
          /\ anim.on' => anim' = anim]_vars

\* a wheel event was rejected: the scale it asked for is out of range
C11_WheelRejected ==
  /\ imageLoaded
  /\ log.op = "wheel"
  /\ scale = log.from
  /\ OutOfRange(RMul(log.from, log.k))

\* the image coordinate shown at viewport coordinate v: c is the viewport
\* size along that axis, t the translation and s the scale
ImagePoint(v, c, t, s) == RDiv(RSub(RSub(v, Norm(c, 2)), t), s)

\* the transform satisfies the constraint rule
Constrained ==
  LET st == ConstrainScaleAndPosition(Cur)
  IN  st.scale = scale /\ st.translateX = translateX
                       /\ st.translateY = translateY

\* C12: an unanimated zoomAt(x, y, k) whose new scale is in range, made from
\* a constrained transform, leaves the image point under (x, y) where it
\* was, also when limitToBounds is set.
C12_ZoomKeepsAnchor ==
  [][(/\ ZoomCalled
      /\ Constrained
      /\ ~anim.on /\ ~anim.on'
      /\ log'.k # One
      /\ scale' = RMul(scale, log'.k))
       => /\ ImagePoint(log'.x, canvasWidth, translateX', scale')
               = ImagePoint(log'.x, canvasWidth, translateX, scale)
          /\ ImagePoint(log'.y, canvasHeight, translateY', scale')
               = ImagePoint(log'.y, canvasHeight, translateY, scale)]_vars

\* C13: in toggle mode two double activations in a row at one anchor, with
\* no pan or zoom between them and each animation run to its end, bring the
\* scale back to what it was before the first.
C13_ToggleTwiceRestoresScale ==
  (cfg.dblMode = "toggle" /\ log.fired /\ log.run = 2 /\ ~anim.on)
    => scale = log.runFrom

\* C14: once the animation of a resetView has run to its end the transform
\* is (F * initialScale, 0, 0), from whatever transform the call was made;
\* so a second resetView ends in the same transform.
C14_ResetConverges ==
  (imageLoaded /\ log.op = "resetView" /\ ~anim.on)
    => /\ scale = RMul(GetFitToScreenScale(Cur), cfg.initialScale)
       /\ translateX = Zero /\ translateY = Zero

\* a resetView called on a zoomed view has finished
C14_ResetFromZoomedDone ==
  /\ imageLoaded
  /\ log.op = "resetView"
  /\ ~anim.on
  /\ log.from # scale

\* the transform of engine state st
Transform(st) == <<st.scale, st.translateX, st.translateY>>

\* C15: applying the constraint (the scale clamp, then the translation
\* clamp) to the result of applying the constraint changes neither s nor tx
\* nor ty, whatever the transform, the viewport, the image size and the
\* configuration.  The resize handler applies the constraint; the transform
\* it leaves is one the constraint leaves alone.
C15_ConstraintIdempotent ==
  (imageLoaded /\ log.op = "resize")
    => Transform(ConstrainScaleAndPosition(Cur)) = Transform(Cur)

\* C16: with the pressure level fixed and an image loaded, the level the
\* selection returns does not decrease when the relative scale r = s / F
\* grows: r1 <= r2 implies LOD(r1) <= LOD(r2).
C16_LODMonotoneInScale ==
  imageLoaded =>
    \A r \in RelativeScales :
      LET s2 == RMul(r, GetFitToScreenScale(Cur))
      IN  RLe(scale, s2)
            => SelectOptimalLOD(Cur) <= SelectOptimalLOD([Cur EXCEPT !.scale = s2])

\* a zoom made the policy request a finer level than the one shown, under
\* pressure
C16_FinerLevelRequested ==
  /\ pressure = "high"
  /\ log.op = "zoomIn"
  /\ RLt(log.from, scale)
  /\ \E i \in 1..Len(tasks) :
       /\ tasks[i].kind = "lod"
       /\ tasks[i].lod = SelectOptimalLOD(Cur)
       /\ tasks[i].lod > SelectOptimalLOD([Cur EXCEPT !.scale = log.from])

\* how severe a pressure level is
Severity(p) ==
  CASE p = "critical" -> 3 [] p = "high" -> 2 [] p = "medium" -> 1
    [] OTHER -> 0

\* C17: at every relative scale a more severe pressure level never selects
\* a finer level: the level selected under critical pressure is at most the
\* level selected under low pressure.
C17_PressureSelectsCoarser ==
  imageLoaded =>
    \A p \in Pressures :
      Severity(p) >= Severity(pressure)
        => SelectOptimalLOD([Cur EXCEPT !.pressure = p]) <= SelectOptimalLOD(Cur)

DecodeOfLoadFails ==
  /\ faultsLeft' < faultsLeft
  /\ \E i \in 1..Len(tasks) :
       /\ tasks[i].kind = "boot"
       /\ tasks[i].pc = "decode"
       /\ tasks' = RemoveAt(tasks, i)

\* C19: when the decoder rejects during loadImage the image is not
\* installed and the engine is as it was before the call: the transform,
\* the image size, the front texture, currentLOD and imageLoaded are
\* unchanged, and so is the source URL kept for later texture creations, on
\* a first load and on a load over an image already shown.
C19_FailedLoadChangesNothing ==
  [][DecodeOfLoadFails
       => /\ UNCHANGED <<scale, translateX, translateY, imageWidth,
                         imageHeight, frontTexture, currentLOD, imageLoaded>>
          /\ originalImageSrc' = log.prevSrc]_vars

\* the texture creation of a live LOD change returned null in this step
LiveCreationFails ==
  /\ faultsLeft' < faultsLeft
  /\ \E i \in 1..Len(tasks) :
       /\ tasks[i].kind = "lod"
       /\ tasks[i].pc = "idle"
       /\ tasks' = RemoveAt(tasks, i)

\* a zoom was applied in this step, after a live LOD change had failed, and
\* the level the policy selects for the new view is neither shown nor cached
TriggerAfterFailure ==
  /\ log.failedLOD # -1
  /\ opsLeft' < opsLeft
  /\ ~anim.on'
  /\ scale' # scale
  /\ SelectOptimalLOD(ViewAfterStep) # currentLOD'
  /\ lodTextures'[SelectOptimalLOD(ViewAfterStep)] = NoInfo

\* C20: when every way of producing the texture of a live LOD change has
\* failed, the front texture and currentLOD are unchanged and no swap is
\* armed; the next transform change that re-evaluates the LOD issues the
\* request again.
C20_FailedLODChangeRetried ==
  [][/\ LiveCreationFails
          => UNCHANGED <<frontTexture, currentLOD, backTexture,
                         isBackBufferReady, rafQueue>>
     /\ TriggerAfterFailure
          => /\ Len(tasks') = Len(tasks) + 1
             /\ tasks'[Len(tasks')].kind = "lod"
             /\ tasks'[Len(tasks')].pc = "decode"
             /\ tasks'[Len(tasks')].lod = SelectOptimalLOD(ViewAfterStep)]_vars

\* the level whose creation failed has been requested again
C20_SameLevelRequestedAgain ==
  /\ log.failedLOD # -1
  /\ log.op = "zoomIn"
  /\ frontTexture # NoTexture
  /\ currentLOD # log.failedLOD
  /\ tasks # <<>>
  /\ tasks[Len(tasks)].kind = "lod"
  /\ tasks[Len(tasks)].pc = "decode"
  /\ tasks[Len(tasks)].lod = log.failedLOD

\* C21: once an image is loaded, a failure of the decoder or of the texture
\* creation during a live LOD change (a step that fails a request of
\* updateLODIfNeeded) rejects no promise of the engine and throws nothing:
\* the request is dropped, and the front texture and currentLOD stay as
\* they are.
C21_LiveFailureStaysInside ==
  [][(/\ imageLoaded
      /\ faultsLeft' < faultsLeft
      /\ tasks' # tasks
      /\ \E i \in 1..Len(tasks) :
           /\ tasks[i].kind = "lod"
           /\ Len(tasks') = Len(tasks) => tasks'[i].pc = "idle"
           /\ Len(tasks') # Len(tasks) => tasks' = RemoveAt(tasks, i))
       => /\ log'.rejected = "none"
          /\ UNCHANGED <<frontTexture, currentLOD>>]_vars

\* C22: the step that completes a successful load (the bootstrap texture is
\* installed as front) leaves the transform (F * initialScale, 0, 0), on a
\* first load and on a load over a panned or zoomed view, with centerOnInit
\* set or not.
C22_LoadResetsTransform ==
  [][(/\ \E i \in 1..Len(tasks) : tasks[i].kind = "boot"
      /\ \A i \in 1..Len(tasks') : tasks'[i].kind # "boot"
      /\ frontTexture' # frontTexture)
       => /\ scale' = RMul(GetFitToScreenScale(ViewAfterStep), cfg.initialScale)
          /\ translateX' = Zero
          /\ translateY' = Zero]_vars

\* C23: an input or a command that arrives while an animation is in flight
\* cancels it: after the step no animation runs, or the one that runs was
\* started by this step from the transform of this moment, so that no tick
\* of the old animation writes the transform again.
C23_InputCancelsAnimation ==
  [][(/\ anim.on
      /\ opsLeft' < opsLeft
      /\ log'.op \in {"wheel", "touchStart", "zoomIn", "zoomOut", "resetView"})
       => \/ ~anim.on'
          \/ /\ anim'.startScale = scale'
             /\ anim'.startTranslateX = translateX'
             /\ anim'.startTranslateY = translateY']_vars

C25_ToggleFromFitReachesOne ==
  (/\ imageLoaded
   /\ cfg.dblMode = "toggle"
   /\ log.op = "doubleClick" /\ log.fired
   /\ log.from = RMul(GetFitToScreenScale(Cur), cfg.initialScale)
   /\ isOriginalSize
   /\ ~anim.on)
    => scale = One

\* C26: before a texture is allocated every texture of the cache has been
\* deleted: at each allocation, the textures that the cache held before it
\* are no longer allocated.
C26_CacheDeletedBeforeAllocation ==
  [][Len(gpu') > Len(gpu)
       => \A l \in LODs : lodTextures[l].texture # NoTexture
                             => ~gpu'[lodTextures[l].texture].live]_vars

\* C27: the swap is one step between frames: the frame that runs the swap
\* of an armed, non-null back texture sets front to that texture, back to
\* null and currentLOD to the level the texture was made for, all at once.
C27_SwapInstallsAndClearsBack ==
  [][(isBackBufferReady /\ backTexture # NoTexture /\ ~isBackBufferReady')
       => /\ frontTexture' = backTexture
          /\ backTexture' = NoTexture
          /\ currentLOD' = gpu[backTexture].lod]_vars

\* C28: at most one texture creation per LOD index is in flight: when the
\* policy or the preloading asks for a level whose creation is already in
\* flight, no second creation is started.
C28_OneCreationPerLOD ==
  \A i, j \in 1..Len(tasks) :
    (/\ i # j
     /\ tasks[i].kind \in {"lod", "preload"}
     /\ tasks[j].kind \in {"lod", "preload"})
      => tasks[i].lod # tasks[j].lod

\* C29: every texture that is allocated and not deleted is the texture of an
\* entry of the cache, or belongs to a creation still in flight that will
\* store or delete it: no failure after the allocation and no store under a
\* level that already has an entry leaves a texture allocated without owner.
C29_LiveTextureOwned ==
  \A t \in 1..Len(gpu) :
    gpu[t].live => \/ Cached(t)
                   \/ \E i \in 1..Len(tasks) : tasks[i].tex = t

\* C30: while the request of a live LOD change is in flight, front stays the
\* same texture, that texture stays allocated, and a frame that draws binds
\* it.  The request is in flight in a step when the creation for the level
\* the policy selects runs, with no swap of an earlier request still armed,
\* and is not completed by the step, or when a swap is armed and not run by
\* the step.
C30_FrontKeptWhileInFlight ==
  [][(/\ frontTexture # NoTexture
      /\ ~destroyed'
      /\ \/ /\ ~isBackBufferReady
            /\ \E i \in 1..Len(tasks) :
                 tasks[i].kind = "lod" /\ tasks[i].lod = SelectOptimalLOD(Cur)
            /\ Cardinality({i \in 1..Len(tasks') :
                   /\ tasks'[i].kind = "lod"
                   /\ tasks'[i].lod = SelectOptimalLOD(Cur)})
                 >= Cardinality({i \in 1..Len(tasks) :
                      /\ tasks[i].kind = "lod"
                      /\ tasks[i].lod = SelectOptimalLOD(Cur)})
         \/ isBackBufferReady /\ isBackBufferReady')
       => /\ frontTexture' = frontTexture
          /\ gpu'[frontTexture].live
          /\ drawn' # drawn => drawn'.tex = frontTexture]_vars

\* C31: once the transform and the pressure level stop changing, and with
\* texture creations that succeed, the engine reaches and keeps a state in
\* which currentLOD is the level the policy selects for the current scale
\* and pressure.  Stated on the states the engine comes to rest in: no
\* creation in flight, no swap armed, no animation running, and a memory
\* monitor that finds nothing to change.  Such a state changes only by a new
\* input, so the level it holds is the level the engine stays at.
C31_SettledAtSelectedLOD ==
  (/\ imageLoaded /\ ~destroyed
   /\ tasks = <<>> /\ ~isBackBufferReady /\ ~anim.on
   /\ UpdateMemoryInfo(Cur) = Cur)
  => currentLOD = SelectOptimalLOD(Cur)

\* C32: for a loaded image the policy returns the smallest level l whose
\* viewport scale psi_l, multiplied by the pressure modifier m, is at least
\* the relative scale r = s / F, and the finest level when no level is;
\* m is 1, 9/10, 7/10, 1/2 for pressure low, medium, high, critical.
C32_PolicySelectsSmallestFit ==
  imageLoaded =>
    LET r == RDiv(scale, GetFitToScreenScale(Cur))
        m == CASE pressure = "low" -> One
               [] pressure = "medium" -> <<9, 10>>
               [] pressure = "high" -> <<7, 10>>
               [] pressure = "critical" -> <<1, 2>>
        l == SelectOptimalLOD(Cur)
        Fits(k) == RLe(r, RMul(LodMaxViewport[k + 1], m))
    IN  \/ Fits(l) /\ \A k \in 0..(l - 1) : ~Fits(k)
        \/ l = NumLODs - 1 /\ \A k \in LODs : ~Fits(k)

\* under medium pressure a level is requested that low pressure would not
\* select
C32_ModifierShiftsRequest ==
  /\ pressure = "medium"
  /\ \E i \in 1..Len(tasks) :
       /\ tasks[i].kind = "lod"
       /\ tasks[i].lod = SelectOptimalLOD(Cur)
       /\ tasks[i].lod # SelectOptimalLOD([Cur EXCEPT !.pressure = "low"])

\* C33: the step that completes a successful load installs as front the
\* texture of the level the policy selects for the initial transform
\* (s = F * initialScale) under the pressure of that moment, and sets
\* currentLOD to that level.
C33_LoadInstallsSelectedLOD ==
  [][(/\ \E i \in 1..Len(tasks) : tasks[i].kind = "boot"
      /\ \A i \in 1..Len(tasks') : tasks'[i].kind # "boot"
      /\ frontTexture' # frontTexture)
       => LET l == SelectOptimalLOD(
                     [ViewAfterStep EXCEPT
                        !.scale = RMul(GetFitToScreenScale(ViewAfterStep),
                                       cfg.initialScale)])
          IN  /\ currentLOD' = l
              /\ gpu'[frontTexture'].lod = l]_vars

\* C34: every texture the factory creates satisfies both caps at once, under
\* the pressure of the moment of its creation: neither side exceeds the
\* effective maximum texture size, and its footprint 4 * W * H does not
\* exceed 30 % of the texture memory budget.
C34_TextureWithinBothCaps ==
  [][Len(gpu') > Len(gpu) =>
       LET t == gpu'[Len(gpu')]
           size == TextureSize(t.src, t.lod, pressure)
       IN  /\ size[1] <= GetEffectiveMaxTextureSize(pressure)
           /\ size[2] <= GetEffectiveMaxTextureSize(pressure)
           /\ lodTextures'[t.lod].memory = 4 * size[1] * size[2]
           /\ RLe(R(4 * size[1] * size[2]),
                  RMul(R(TextureMemoryLimit), <<3, 10>>))]_vars

\* C35: in toggle mode the target of a double activation is determined by
\* the view it is made on: on a view at fit (s = F * initialScale) the
\* target scale is 1, on a view at 1:1 it is F * initialScale, each clamped
\* to the scale range, whatever commands and inputs came before.
C35_ToggleTargetFromView ==
  [][(/\ imageLoaded /\ cfg.dblMode = "toggle" /\ ~anim.on
      /\ opsLeft' < opsLeft /\ ~dblRecent
      /\ log'.op = "doubleClick" /\ log'.fired) =>
       LET fit == RMul(GetFitToScreenScale(Cur), cfg.initialScale)
           lo == AbsoluteMinScale(Cur)
           hi == EffectiveMaxScale(Cur)
       IN  /\ anim'.on
           /\ (scale = fit /\ scale # One)
                => anim'.targetScale = Clamp(One, lo, hi)
           /\ (scale = One /\ scale # fit)
                => anim'.targetScale = Clamp(fit, lo, hi)]_vars

\* C36: under fair frame ticks every animation comes to an end.  The frame
\* that completes it leaves the transform exactly at the target, clears the
\* animation record and runs the LOD re-evaluation: the level selected for
\* the target is the level shown when updateAnimation ran, or it is now
\* being created, or its swap is registered.
C36_AnimationCompletes ==
  /\ anim.on ~> ~anim.on
  /\ [][(anim.on /\ ~anim.on' /\ opsLeft' = opsLeft /\ loadsLeft' = loadsLeft) =>
         /\ scale' = anim.targetScale
         /\ translateX' = anim.targetTranslateX
         /\ translateY' = anim.targetTranslateY
         /\ anim' = NoAnim
         /\ imageLoaded =>
              LET S == SelectOptimalLOD(ViewAfterStep)
                  k == CHOOSE i \in 1..Len(rafQueue) : rafQueue[i].kind = "render"
                  mid == RunCallbacks([Cur EXCEPT !.rafQueue = <<>>],
                                      SubSeq(rafQueue, 1, k - 1), One)
              IN  \/ mid.currentLOD = S
                  \/ \E i \in 1..Len(tasks') :
                       tasks'[i].kind = "lod" /\ tasks'[i].lod = S
                  \/ \E i \in 1..Len(rafQueue') :
                       rafQueue'[i].kind = "swap" /\ rafQueue'[i].lod = S]_vars

\* the animation of a toggle from fit has run to its end at 1:1
C36_ToggleAnimationDone ==
  /\ cfg.dblMode = "toggle"
  /\ log.op = "doubleClick" /\ log.fired
  /\ ~anim.on
  /\ scale = One /\ log.from # One

\* C37: the target of every animation (resetView, animated zoomIn and
\* zoomOut, toggle) is a constrained transform: its scale lies in
\* [F * minScale, max(F * maxScale, 1)] and the position constraint for that
\* scale leaves its translation as it is.
C37_AnimationTargetConstrained ==
  [][(imageLoaded /\ opsLeft' < opsLeft /\ anim'.on /\ anim' # anim) =>
       LET target == [Cur EXCEPT !.scale = anim'.targetScale,
                                 !.translateX = anim'.targetTranslateX,
                                 !.translateY = anim'.targetTranslateY]
       IN  /\ RLe(AbsoluteMinScale(Cur), anim'.targetScale)
           /\ RLe(anim'.targetScale, EffectiveMaxScale(Cur))
           /\ ConstrainImagePosition(target) = target]_vars

\* C38: with limitToBounds, in every state where the scale is at most the
\* fit scale the image is centred (tx = 0 and ty = 0), at the ticks of an
\* animation and after an unanimated zoom below fit too.
C38_CenteredAtOrBelowFit ==
  (imageLoaded /\ cfg.limitToBounds /\ RLe(scale, GetFitToScreenScale(Cur)))
    => translateX = Zero /\ translateY = Zero

\* C39: a detected double tap resets the tap timer: the touch-start that
\* follows a double tap, however soon and however close, does not run the
\* double activation, so three rapid taps run it once.
C39_NoTripleTap ==
  [][(/\ log.op = "touchStart" /\ log.fired
      /\ opsLeft' < opsLeft
      /\ log'.op = "touchStart") => ~log'.fired]_vars

\* in zoom mode a third tap followed a double tap: the view was zoomed once,
\* and the third tap was recorded as a first tap
C39_ThirdTapRecorded ==
  /\ cfg.dblMode = "zoom"
  /\ imageLoaded
  /\ opsLeft = 0
  /\ log.op = "touchStart" /\ ~log.fired
  /\ lastTouchAge = 0
  /\ scale = RMul(RMul(GetFitToScreenScale(Cur), cfg.initialScale), cfg.dblStep)

\* C40: no draw binds a texture that has been deleted, a texture that was
\* staged for a swap and evicted before the frame of the swap included.
C40_NoDrawOfDeletedTexture == ~drawn.deleted

====
